---- MODULE Spec2Model ----
(***************************************************************************)
(* Krypton Session controller: the session state machine and its           *)
(* coordination with Auth, the Egress Manager, the Datapath, the VPN       *)
(* Service and the Timer Manager, as exercised by krypton/session_test.cc. *)
(*                                                                         *)
(* The whole session is kept in one record-shaped set of variables; every  *)
(* handler is a pure operator from a session record (plus the inputs the   *)
(* collaborators return) to the session record after the handler ran to    *)
(* completion.  An action of Next applies one handler.                     *)
(***************************************************************************)
EXTENDS Integers, Sequences, FiniteSets, TLC

\* ---------------------------------------------------------------- bounds
\* Cap on the number of rekey requests (DoRekey or rekey timer).
MaxRekeys == 1
\* Cap on the number of accepted SetNetwork calls.
MaxSetNetwork == 2
\* Cap on the number of timers pending in the TimerManager.
MaxTimers == 2
\* Cap on the number of tasks waiting for the notification thread.
MaxQueue == 1

\* ------------------------------------------------------ program constants
\* Two attempts on v6 and two on v4 make the reattempt schedule.
MAX_REATTEMPTS == 4
\* reattempt_timer_id / rekey_timer_id when no timer is set.
kInvalidTimerId == -1
\* A pipe that is absent (std::unique_ptr holding nothing).
NoPipe == 0
\* network_switches before any SetNetwork.
kInitialNetworkSwitches == 1

\* Session::State
kInitialized == "kInitialized"
kEgressSessionCreated == "kEgressSessionCreated"
kControlPlaneConnected == "kControlPlaneConnected"
kConnected == "kConnected"
kSessionError == "kSessionError"
kPermanentError == "kPermanentError"
kStopped == "kStopped"
States ==
  {kInitialized, kEgressSessionCreated, kControlPlaneConnected, kConnected,
   kSessionError, kPermanentError, kStopped}

\* absl::Status, by code.  OkStatus is absl::OkStatus().
OkStatus == "OK"
PermissionDenied == "PERMISSION_DENIED"
Internal == "INTERNAL"
NotFound == "NOT_FOUND"
InvalidArgument == "INVALID_ARGUMENT"
Unavailable == "UNAVAILABLE"
\* The statuses the collaborators of the tests report.
AuthFailureStatuses == {PermissionDenied, Internal}
EgressStatuses == {OkStatus, NotFound}
DatapathStartStatuses == {OkStatus, InvalidArgument}
DatapathFailedStatuses == {Internal}
RekeyStatuses == {OkStatus, Internal}

\* NetworkInfo {network_id, network_type}; network_id 0 stands for "not set".
NoNetwork == [network_id |-> 0, network_type |-> "NONE"]
Cellular1234 == [network_id |-> 1234, network_type |-> "CELLULAR"]
Wifi == [network_id |-> 0, network_type |-> "WIFI"]
NetworkInfos == {Cellular1234, Wifi}

\* egress_point_sock_addr of the fake Add-Egress response, in wire order.
egress_point_sock_addr ==
  << [family |-> "v4", addr |-> "64.9.240.165:2153"],
     [family |-> "v6", addr |-> "[2604:ca00:f001:4::5]:2153"] >>

\* The subsequence of the addresses of one family, wire order preserved.
RECURSIVE OfFamily(_, _)
OfFamily(addrs, fam) ==
  IF addrs = << >> THEN << >>
  ELSE IF Head(addrs).family = fam
       THEN << Head(addrs) >> \o OfFamily(Tail(addrs), fam)
       ELSE OfFamily(Tail(addrs), fam)

\* A schedule that tries the primary v4 address before the primary v6 one.
ReattemptScheduleV4First(addrs) ==
  LET v6 == OfFamily(addrs, "v6")
      v4 == OfFamily(addrs, "v4")
  IN << Head(v4).addr, Head(v4).addr, Head(v6).addr, Head(v6).addr >>

\* The reattempt schedule: primary v6 twice, then primary v4 twice.
ReattemptSchedule(addrs) ==
  LET v6 == OfFamily(addrs, "v6")
      v4 == OfFamily(addrs, "v4")
  IN << Head(v6).addr, Head(v6).addr, Head(v4).addr, Head(v4).addr >>

\* The endpoint list of a first-time (non reattempt) SwitchNetwork: all of them.
AllEndpoints(addrs) == [i \in 1..Len(addrs) |-> addrs[i].addr]

\* The single endpoint of the reattempt made when reattempt_count is n (n >= 1).
ReattemptEndpoints(addrs, n) == << ReattemptSchedule(addrs)[n] >>


\* Starting values of the fds the VPN service hands out: tun_fd_counter_ is
\* kValidTunFd (0xbeef), network_fd_counter_ is kValidTunFd + 1000.
kValidTunFd == 48879
network_fd_counter == kValidTunFd + 1000

\* ------------------------------------------------------------------ state
VARIABLES
  state,                \* Session::State
  latest_status,        \* last error recorded (OkStatus if none)
  active_network_info,  \* NetworkInfo of the last SetNetwork, or NoNetwork
  active_tun_pipe,      \* fd of the owned tunnel pipe, or NoPipe
  active_network_pipe,  \* fd of the owned protected socket pipe, or NoPipe
  reattempt_count,      \* datapath reattempts since the last establishment
  reattempt_timer_id,   \* id of the pending reattempt timer, or kInvalidTimerId
  rekey_timer_id,       \* id of the rekey timer, or kInvalidTimerId
  successful_rekeys,    \* number of successful rekeys
  network_switches,     \* number of network switches (starts at 1)
  is_rekey,             \* the next auth flow is a rekey
  started,              \* Start() has been called
  queue,                \* tasks posted to the notification thread, in order
  auth_inflight,        \* Auth.Start(is_rekey) calls not answered yet
  timers,               \* timers pending in the TimerManager
  live_pipes,           \* fds of the pipes created and not yet released
  datapath_network_pipe,\* network pipe of the last SwitchNetwork that returned OK
  delivered,            \* the kinds of notification delivered so far
  called,               \* the collaborator methods called so far
  out,                  \* what the last handler did: notifications and calls, in order
  failure_run,          \* datapath failures and reattempts since the last establishment
  reconnect_in_flight,  \* a reattempt's SwitchNetwork returned OK and is not answered yet
  rekey_requests        \* DoRekey calls and rekey timer fires so far

vars ==
  << state, latest_status, active_network_info, active_tun_pipe,
     active_network_pipe, reattempt_count, reattempt_timer_id, rekey_timer_id,
     successful_rekeys, network_switches, is_rekey, started, queue,
     auth_inflight, timers, live_pipes, datapath_network_pipe, delivered,
     called, out, failure_run, reconnect_in_flight, rekey_requests >>

Notifications ==
  {"ControlPlaneConnected", "ControlPlaneDisconnected", "PermanentFailure",
   "DatapathConnected", "DatapathDisconnected"}

Methods ==
  {"Auth.Start", "EgressManager.GetEgressNode", "Datapath.Start",
   "Datapath.Rekey", "Datapath.Stop", "Datapath.SwitchNetwork",
   "VpnService.CreateTunnel", "VpnService.CreateProtectedNetworkSocket",
   "StartTimer.500ms", "StartTimer.5min"}

\* The notifications and the methods remembered over the whole session.
Remembered ==
  {"ControlPlaneConnected", "ControlPlaneDisconnected", "PermanentFailure",
   "DatapathConnected", "Datapath.Start", "VpnService.CreateTunnel"}

\* The session and its surroundings as one record.
Cur ==
  [ state |-> state, latest_status |-> latest_status,
    active_network_info |-> active_network_info,
    active_tun_pipe |-> active_tun_pipe,
    active_network_pipe |-> active_network_pipe,
    reattempt_count |-> reattempt_count,
    reattempt_timer_id |-> reattempt_timer_id,
    rekey_timer_id |-> rekey_timer_id,
    successful_rekeys |-> successful_rekeys,
    network_switches |-> network_switches, is_rekey |-> is_rekey,
    started |-> started, queue |-> queue, auth_inflight |-> auth_inflight,
    timers |-> timers, live_pipes |-> live_pipes,
    datapath_network_pipe |-> datapath_network_pipe,
    delivered |-> delivered, called |-> called, out |-> out,
    failure_run |-> failure_run, reconnect_in_flight |-> reconnect_in_flight,
    rekey_requests |-> rekey_requests ]

\* The next state is the record r.
Set(r) ==
  /\ state' = r.state
  /\ latest_status' = r.latest_status
  /\ active_network_info' = r.active_network_info
  /\ active_tun_pipe' = r.active_tun_pipe
  /\ active_network_pipe' = r.active_network_pipe
  /\ reattempt_count' = r.reattempt_count
  /\ reattempt_timer_id' = r.reattempt_timer_id
  /\ rekey_timer_id' = r.rekey_timer_id
  /\ successful_rekeys' = r.successful_rekeys
  /\ network_switches' = r.network_switches
  /\ is_rekey' = r.is_rekey
  /\ started' = r.started
  /\ queue' = r.queue
  /\ auth_inflight' = r.auth_inflight
  /\ timers' = r.timers
  /\ live_pipes' = r.live_pipes
  /\ datapath_network_pipe' = r.datapath_network_pipe
  /\ delivered' = r.delivered
  /\ called' = r.called
  /\ out' = r.out
  /\ failure_run' = r.failure_run
  /\ reconnect_in_flight' = r.reconnect_in_flight
  /\ rekey_requests' = r.rekey_requests

\* The record r is within the bounds of the model.
Bounded(r) ==
  /\ r.rekey_requests <= MaxRekeys
  /\ r.network_switches <= kInitialNetworkSwitches + MaxSetNetwork
  /\ Cardinality(r.timers) <= MaxTimers
  /\ Len(r.queue) <= MaxQueue

\* A run of datapath failures that nothing else has interrupted so far.
CleanRun == [clean |-> TRUE, log |-> << >>]
\* The run was interrupted (SetNetwork, overlapping failures, failed reattempt).
BrokenRun == [clean |-> FALSE, log |-> << >>]

\* State after the Session constructor and RegisterNotificationHandler.
Init ==
  /\ state = kInitialized
  /\ latest_status = OkStatus
  /\ active_network_info = NoNetwork
  /\ active_tun_pipe = NoPipe
  /\ active_network_pipe = NoPipe
  /\ reattempt_count = 0
  /\ reattempt_timer_id = kInvalidTimerId
  /\ rekey_timer_id = kInvalidTimerId
  /\ successful_rekeys = 0
  /\ network_switches = kInitialNetworkSwitches
  /\ is_rekey = FALSE
  /\ started = FALSE
  /\ queue = << >>
  /\ auth_inflight = << >>
  /\ timers = {}
  /\ live_pipes = {}
  /\ datapath_network_pipe = NoPipe
  /\ delivered = {}
  /\ called = {}
  /\ out = << >>
  /\ failure_run = BrokenRun
  /\ reconnect_in_flight = FALSE
  /\ rekey_requests = 0


\* ------------------------------------------------------- helper operators
\* Deliver notification n with argument arg to the embedder.
Notify(s, n, arg) ==
  [s EXCEPT !.delivered = @ \cup ({n} \cap Remembered),
            !.out = Append(@, [name |-> n, arg |-> arg])]

\* One call of method m of a collaborator, with argument arg.
Call(s, m, arg) ==
  [s EXCEPT !.called = @ \cup ({m} \cap Remembered),
            !.out = Append(@, [name |-> m, arg |-> arg])]

\* TimerManager.StartTimer: a fresh id, pending until fired or cancelled.
TimerMethod(kind) ==
  IF kind = "reattempt" THEN "StartTimer.500ms" ELSE "StartTimer.5min"

\* The id the TimerManager gives to the next timer: one that is not in use.
NextTimerId(s) ==
  LET used == {t.id : t \in s.timers}
                \cup {s.reattempt_timer_id, s.rekey_timer_id}
  IN CHOOSE i \in 1..(Cardinality(used) + 1) :
       i \notin used /\ \A j \in 1..(i - 1) : j \in used

StartTimer(s, kind) ==
  [Call(s, TimerMethod(kind), NextTimerId(s)) EXCEPT
     !.timers = @ \cup {[id |-> NextTimerId(s), kind |-> kind]}]

\* TimerManager.CancelTimer(id): the timer no longer fires.
CancelTimer(s, id) == [s EXCEPT !.timers = {t \in @ : t.id # id}]

\* The fd of the next protected socket: one that no live pipe holds.
NextNetworkFd(s) ==
  LET used == s.live_pipes \cup {s.datapath_network_pipe}
  IN CHOOSE fd \in (network_fd_counter + 1)..(network_fd_counter + Cardinality(used) + 1) :
       fd \notin used
       /\ \A g \in (network_fd_counter + 1)..(fd - 1) : g \in used

\* A session that never closes a pipe.
ReleaseNothing(s, pipe) == s

\* Release a pipe (close its fd); NoPipe holds nothing.
Release(s, pipe) ==
  IF pipe = NoPipe THEN s ELSE [s EXCEPT !.live_pipes = @ \ {pipe}]

\* Auth.Start(is_rekey): fire and forget, answered later.
AuthStart(s, rekey) ==
  [Call(s, "Auth.Start", rekey) EXCEPT !.auth_inflight = Append(@, rekey)]

\* ---------------------------------------------------------------- session
\* Session::Start(): begins the control-plane flow.
Start(s) ==
  IF s.state = kInitialized
  THEN [AuthStart(s, FALSE) EXCEPT !.started = TRUE]
  ELSE [s EXCEPT !.started = TRUE]

\* A session that treats every auth failure as transient.
AuthFailureAlwaysTransient(s, st) ==
  [Notify(s, "ControlPlaneDisconnected", st) EXCEPT
     !.latest_status = st, !.state = kSessionError]

\* A session that listens to auth failures only while waiting for its first
\* auth response.
AuthFailureOnlyWhenInitialized(s, st) ==
  IF s.state # kInitialized THEN s
  ELSE IF st = PermissionDenied
  THEN [Notify(s, "PermanentFailure", st) EXCEPT
          !.latest_status = st, !.state = kPermanentError]
  ELSE [Notify(s, "ControlPlaneDisconnected", st) EXCEPT
          !.latest_status = st, !.state = kSessionError]

\* Session::AuthFailure(status): permanent on PermissionDenied, else a
\* session error; there is no condition on the state it arrives in.
AuthFailure(s, st) ==
  IF st = PermissionDenied
  THEN [Notify(s, "PermanentFailure", st) EXCEPT
          !.latest_status = st, !.state = kPermanentError]
  ELSE [Notify(s, "ControlPlaneDisconnected", st) EXCEPT
          !.latest_status = st, !.state = kSessionError]

\* A session that carries on to the datapath whatever the Egress Manager
\* answered.
AuthSuccessfulIgnoringEgressError(s, rekey, egress_status) ==
  IF ~ ((~rekey /\ s.state = kInitialized) \/ (rekey /\ s.state = kConnected))
  THEN s
  ELSE [Call(s, "EgressManager.GetEgressNode",
             [is_rekey |-> rekey, status |-> egress_status])
          EXCEPT !.queue =
            Append(@, [task |-> "EgressAvailable", arg |-> rekey])]

\* Session::AuthSuccessful(is_rekey): asks the Egress Manager for an egress
\* node; the manager returns egress_status at once and, on OK, posts
\* EgressAvailable(is_rekey) to the notification thread.
AuthSuccessful(s, rekey, egress_status) ==
  IF ~ ((~rekey /\ s.state = kInitialized) \/ (rekey /\ s.state = kConnected))
  THEN s
  ELSE LET c == Call(s, "EgressManager.GetEgressNode",
                      [is_rekey |-> rekey, status |-> egress_status])
       IN IF egress_status = OkStatus
          THEN [c EXCEPT !.queue =
                  Append(@, [task |-> "EgressAvailable", arg |-> rekey])]
          ELSE [Notify(c, "ControlPlaneDisconnected", egress_status) EXCEPT
                  !.latest_status = egress_status, !.state = kSessionError]

\* A session that gives up for good when the reattempts are used up.
DatapathFailedEndingSession(s, st) ==
  IF s.state # kConnected THEN s
  ELSE IF s.reattempt_count + 1 < MAX_REATTEMPTS
  THEN [StartTimer(s, "reattempt") EXCEPT
          !.reattempt_timer_id = NextTimerId(s),
          !.reattempt_count = @ + 1,
          !.latest_status = st]
  ELSE [Notify(s, "DatapathDisconnected",
               [network_info |-> s.active_network_info, status |-> st])
          EXCEPT !.state = kSessionError, !.latest_status = st]

\* A session that starts a reattempt timer after every failure, however many
\* came before.
DatapathFailedRetryingForever(s, st) ==
  IF s.state # kConnected THEN s
  ELSE [StartTimer(s, "reattempt") EXCEPT
          !.reattempt_timer_id = NextTimerId(s),
          !.reattempt_count = @ + 1,
          !.latest_status = st]

\* A session that retries while reattempt_count < MAX_REATTEMPTS: four
\* reattempts before it gives up.
DatapathFailedRetryingFourTimes(s, st) ==
  IF s.state # kConnected THEN s
  ELSE IF s.reattempt_count < MAX_REATTEMPTS
  THEN [StartTimer(s, "reattempt") EXCEPT
          !.reattempt_timer_id = NextTimerId(s),
          !.reattempt_count = @ + 1,
          !.latest_status = st]
  ELSE Notify(s, "DatapathDisconnected",
              [network_info |-> s.active_network_info, status |-> st])

\* Session::DatapathFailed(status, fd): a reattempt timer while reattempts
\* remain, DatapathDisconnected once they are used up.  After an
\* establishment three failures are retried and the fourth is reported.
DatapathFailed(s, st) ==
  IF s.state # kConnected THEN s
  ELSE IF s.reattempt_count + 1 < MAX_REATTEMPTS
  THEN [StartTimer(s, "reattempt") EXCEPT
          !.reattempt_timer_id = NextTimerId(s),
          !.reattempt_count = @ + 1,
          !.latest_status = st]
  ELSE Notify(s, "DatapathDisconnected",
              [network_info |-> s.active_network_info, status |-> st])

\* A session that reports DatapathConnected but leaves the pending reattempt
\* timer armed.
DatapathEstablishedKeepingTimer(s) ==
  IF s.state # kConnected THEN s
  ELSE [Notify(s, "DatapathConnected", OkStatus) EXCEPT
          !.reattempt_count = 0]

\* A datapath that reports DatapathConnected in whatever state the session is.
DatapathEstablishedInAnyState(s) ==
  [Notify(CancelTimer(s, s.reattempt_timer_id), "DatapathConnected",
          OkStatus) EXCEPT
     !.reattempt_count = 0,
     !.reattempt_timer_id = kInvalidTimerId]

\* A session that reports DatapathConnected once only.
DatapathEstablishedNotifyingOnce(s) ==
  IF s.state # kConnected THEN s
  ELSE LET c == [CancelTimer(s, s.reattempt_timer_id) EXCEPT
                   !.reattempt_count = 0,
                   !.reattempt_timer_id = kInvalidTimerId]
       IN IF "DatapathConnected" \in s.delivered THEN c
          ELSE Notify(c, "DatapathConnected", OkStatus)

\* Session::DatapathEstablished(): the datapath is up.
DatapathEstablished(s) ==
  IF s.state # kConnected THEN s
  ELSE [Notify(CancelTimer(s, s.reattempt_timer_id), "DatapathConnected",
               OkStatus) EXCEPT
          !.reattempt_count = 0,
          !.reattempt_timer_id = kInvalidTimerId]

\* A session that retries after a permanent failure as after any other.
DatapathPermanentFailureRetried(s, st) == DatapathFailed(s, st)

\* Session::DatapathPermanentFailure(status): reported at once, no retry.
DatapathPermanentFailure(s, st) ==
  IF s.state # kConnected THEN s
  ELSE Notify(s, "DatapathDisconnected",
              [network_info |-> s.active_network_info, status |-> st])

\* Outcomes of the collaborator calls made during one network switch.
SwitchOutcomes == {"ok", "socket_fail", "tunnel_fail", "switch_fail"}

\* A switch that hands the datapath the network pipe the session already
\* holds instead of the one just created.
SwitchNetworkCallWithHeldPipe(s, endpoints, net_pipe) ==
  Call(s, "Datapath.SwitchNetwork",
       [endpoints |-> endpoints, network_info |-> s.active_network_info,
        network_pipe |-> s.active_network_pipe, tun_pipe |-> s.active_tun_pipe,
        counter |-> s.network_switches])

\* The Datapath.SwitchNetwork call itself, with its arguments.
SwitchNetworkCall(s, endpoints, net_pipe) ==
  Call(s, "Datapath.SwitchNetwork",
       [endpoints |-> endpoints, network_info |-> s.active_network_info,
        network_pipe |-> net_pipe, tun_pipe |-> s.active_tun_pipe,
        counter |-> s.network_switches])

\* A switch that closes the network pipe the datapath is using before it
\* asks the datapath to switch, whatever the datapath then answers.
SwitchDatapathReleasingFirst(s, endpoints, outcome) ==
  IF s.active_network_info = NoNetwork
  THEN LET sw == SwitchNetworkCall(s, endpoints, NoPipe)
       IN IF outcome = "switch_fail" THEN DatapathFailed(sw, Internal)
          ELSE [sw EXCEPT !.datapath_network_pipe = NoPipe]
  ELSE
    LET new_pipe == IF outcome = "socket_fail" THEN NoPipe ELSE NextNetworkFd(s)
        s1 == Call(s, "VpnService.CreateProtectedNetworkSocket",
                   [network_info |-> s.active_network_info, pipe |-> new_pipe])
    IN IF outcome = "socket_fail" THEN DatapathFailed(s1, Internal)
       ELSE
         LET need_tun == s1.active_tun_pipe = NoPipe
             tun_pipe == IF outcome = "tunnel_fail" THEN NoPipe
                         ELSE kValidTunFd + 1
             s2 == [Release(s1, s1.active_network_pipe) EXCEPT
                      !.live_pipes = @ \cup {new_pipe},
                      !.active_network_pipe = new_pipe]
             s3 == IF need_tun
                   THEN [Call(s2, "VpnService.CreateTunnel", tun_pipe) EXCEPT
                           !.active_tun_pipe = tun_pipe,
                           !.live_pipes =
                              IF tun_pipe = NoPipe THEN @ ELSE @ \cup {tun_pipe}]
                   ELSE s2
         IN IF need_tun /\ outcome = "tunnel_fail"
            THEN DatapathFailed(s3, Internal)
            ELSE
              LET sw == SwitchNetworkCall(s3, endpoints, new_pipe)
              IN IF outcome = "switch_fail"
                 THEN DatapathFailed(sw, Internal)
                 ELSE [sw EXCEPT !.datapath_network_pipe = new_pipe]

\* A switch that asks the VPN service for a new tunnel every time.
SwitchDatapathRecreatingTunnel(s, endpoints, outcome) ==
  IF s.active_network_info = NoNetwork
  THEN LET sw == SwitchNetworkCall(s, endpoints, NoPipe)
       IN IF outcome = "switch_fail" THEN DatapathFailed(sw, Internal)
          ELSE [sw EXCEPT !.datapath_network_pipe = NoPipe]
  ELSE
    LET new_pipe == IF outcome = "socket_fail" THEN NoPipe ELSE NextNetworkFd(s)
        s1 == Call(s, "VpnService.CreateProtectedNetworkSocket",
                   [network_info |-> s.active_network_info, pipe |-> new_pipe])
    IN IF outcome = "socket_fail" THEN DatapathFailed(s1, Internal)
       ELSE
         LET tun_pipe == IF outcome = "tunnel_fail" THEN NoPipe
                         ELSE kValidTunFd + 1
             s2 == [s1 EXCEPT !.live_pipes = @ \cup {new_pipe}]
             s3 == [Call(s2, "VpnService.CreateTunnel", tun_pipe) EXCEPT
                      !.active_tun_pipe = tun_pipe,
                      !.live_pipes =
                         IF tun_pipe = NoPipe THEN @ \ {kValidTunFd + 1}
                         ELSE @ \cup {tun_pipe}]
         IN IF outcome = "tunnel_fail"
            THEN DatapathFailed(Release(s3, new_pipe), Internal)
            ELSE
              LET sw == SwitchNetworkCall(s3, endpoints, new_pipe)
              IN IF outcome = "switch_fail"
                 THEN DatapathFailed(Release(sw, new_pipe), Internal)
                 ELSE [Release(sw, sw.active_network_pipe) EXCEPT
                         !.active_network_pipe = new_pipe,
                         !.datapath_network_pipe = new_pipe]

\* A switch that hands the datapath a network pipe without ever asking the
\* VPN service for a tunnel.
SwitchDatapathWithoutTunnel(s, endpoints, outcome) ==
  IF s.active_network_info = NoNetwork
  THEN [SwitchNetworkCall(s, endpoints, NoPipe) EXCEPT
          !.datapath_network_pipe = NoPipe]
  ELSE
    LET new_pipe == NextNetworkFd(s)
        s1 == [Call(s, "VpnService.CreateProtectedNetworkSocket",
                    [network_info |-> s.active_network_info,
                     pipe |-> new_pipe])
                 EXCEPT !.live_pipes = @ \cup {new_pipe}]
        sw == SwitchNetworkCall(s1, endpoints, new_pipe)
    IN [Release(sw, sw.active_network_pipe) EXCEPT
          !.active_network_pipe = new_pipe,
          !.datapath_network_pipe = new_pipe]

\* Switch the datapath to active_network_info: protected socket, tunnel if
\* there is none yet, Datapath.SwitchNetwork.  A failure of the VPN service or
\* of the switch is handled as a datapath failure.
SwitchDatapath(s, endpoints, outcome) ==
  IF s.active_network_info = NoNetwork
  THEN LET sw == SwitchNetworkCall(s, endpoints, NoPipe)
       IN IF outcome = "switch_fail" THEN DatapathFailed(sw, Internal)
          ELSE [sw EXCEPT !.datapath_network_pipe = NoPipe]
  ELSE
    LET new_pipe == IF outcome = "socket_fail" THEN NoPipe ELSE NextNetworkFd(s)
        s1 == Call(s, "VpnService.CreateProtectedNetworkSocket",
                   [network_info |-> s.active_network_info, pipe |-> new_pipe])
    IN IF outcome = "socket_fail" THEN DatapathFailed(s1, Internal)
       ELSE
         LET need_tun == s1.active_tun_pipe = NoPipe
             tun_pipe == IF outcome = "tunnel_fail" THEN NoPipe
                         ELSE kValidTunFd + 1
             s2 == [s1 EXCEPT !.live_pipes = @ \cup {new_pipe}]
             s3 == IF need_tun
                   THEN [Call(s2, "VpnService.CreateTunnel", tun_pipe) EXCEPT
                           !.active_tun_pipe = tun_pipe,
                           !.live_pipes =
                              IF tun_pipe = NoPipe THEN @ ELSE @ \cup {tun_pipe}]
                   ELSE s2
         IN IF need_tun /\ outcome = "tunnel_fail"
            THEN DatapathFailed(Release(s3, new_pipe), Internal)
            ELSE
              LET sw == SwitchNetworkCall(s3, endpoints, new_pipe)
              IN IF outcome = "switch_fail"
                 THEN DatapathFailed(Release(sw, new_pipe), Internal)
                 ELSE [Release(sw, sw.active_network_pipe) EXCEPT
                         !.active_network_pipe = new_pipe,
                         !.datapath_network_pipe = new_pipe]

\* A session that switches the datapath as soon as a network is set, connected
\* or not.
SetNetworkSwitchingAtOnce(s, ni, outcome) ==
  IF s.state \in {kSessionError, kPermanentError, kStopped} THEN s
  ELSE SwitchDatapath([s EXCEPT !.active_network_info = ni,
                                !.network_switches = @ + 1],
                      AllEndpoints(egress_point_sock_addr), outcome)

\* A session that remembers the loss of the network but tells the datapath
\* nothing.
SetNetworkSilentOnNoNetwork(s, ni, outcome) ==
  IF s.state \in {kSessionError, kPermanentError, kStopped} THEN s
  ELSE
    LET a == [s EXCEPT !.active_network_info = ni, !.network_switches = @ + 1]
    IN IF a.state = kConnected /\ ni # NoNetwork
       THEN SwitchDatapath(a, AllEndpoints(egress_point_sock_addr), outcome)
       ELSE a

\* Session::SetNetwork(network_info): returns OK.  Connected: switch at once.
\* Before the control plane is connected: remembered, applied on connecting.
\* After an error or Stop: nothing.
SetNetwork(s, ni, outcome) ==
  IF s.state \in {kSessionError, kPermanentError, kStopped} THEN s
  ELSE
    LET a == [s EXCEPT !.active_network_info = ni, !.network_switches = @ + 1]
    IN IF a.state = kConnected
       THEN SwitchDatapath(a, AllEndpoints(egress_point_sock_addr), outcome)
       ELSE a

\* A session that counts every reattempt as a network switch.
AttemptDatapathReconnectCountingSwitch(s, outcome) ==
  IF s.state # kConnected THEN s
  ELSE
    LET attempt == IF s.reattempt_count > 0 THEN s.reattempt_count ELSE 1
    IN SwitchDatapath([s EXCEPT !.reattempt_timer_id = kInvalidTimerId,
                                !.network_switches = @ + 1],
                      ReattemptEndpoints(egress_point_sock_addr, attempt),
                      outcome)

\* Session::AttemptDatapathReconnect(): the reattempt timer fired.
AttemptDatapathReconnect(s, outcome) ==
  IF s.state # kConnected THEN s
  ELSE
    LET attempt == IF s.reattempt_count > 0 THEN s.reattempt_count ELSE 1
    IN SwitchDatapath([s EXCEPT !.reattempt_timer_id = kInvalidTimerId],
                      ReattemptEndpoints(egress_point_sock_addr, attempt),
                      outcome)

\* A session that starts the datapath before it tells the embedder that the
\* control plane is connected.
EgressAvailableStartingBeforeNotifying(s, rekey, dp_status, outcome) ==
  IF ~rekey
  THEN
    IF s.state # kInitialized THEN s
    ELSE
      LET t == [StartTimer(s, "rekey") EXCEPT
                  !.rekey_timer_id = NextTimerId(s),
                  !.state = kControlPlaneConnected]
          d == Notify(Call(t, "Datapath.Start", dp_status),
                      "ControlPlaneConnected", OkStatus)
      IN IF dp_status # OkStatus
         THEN [Notify(d, "ControlPlaneDisconnected", dp_status) EXCEPT
                 !.latest_status = dp_status, !.state = kSessionError]
         ELSE
           LET c == [d EXCEPT !.state = kConnected]
           IN IF c.active_network_info = NoNetwork THEN c
              ELSE SwitchDatapath(c, AllEndpoints(egress_point_sock_addr),
                                  outcome)
  ELSE
    IF s.state # kConnected THEN s
    ELSE
      LET k == Call(s, "Datapath.Rekey", dp_status)
      IN IF dp_status # OkStatus THEN k
         ELSE [StartTimer(CancelTimer(k, k.rekey_timer_id), "rekey") EXCEPT
                 !.rekey_timer_id = NextTimerId(CancelTimer(k, k.rekey_timer_id)),
                 !.successful_rekeys = @ + 1]

\* A session that restarts the datapath when a rekey flow succeeds.
EgressAvailableRestartingOnRekey(s, rekey, dp_status, outcome) ==
  IF ~rekey
  THEN
    IF s.state # kInitialized THEN s
    ELSE
      LET t == [StartTimer(s, "rekey") EXCEPT
                  !.rekey_timer_id = NextTimerId(s),
                  !.state = kControlPlaneConnected]
          d == Call(Notify(t, "ControlPlaneConnected", OkStatus),
                    "Datapath.Start", dp_status)
      IN IF dp_status # OkStatus
         THEN [Notify(d, "ControlPlaneDisconnected", dp_status) EXCEPT
                 !.latest_status = dp_status, !.state = kSessionError]
         ELSE
           LET c == [d EXCEPT !.state = kConnected]
           IN IF c.active_network_info = NoNetwork THEN c
              ELSE SwitchDatapath(c, AllEndpoints(egress_point_sock_addr),
                                  outcome)
  ELSE
    IF s.state # kConnected THEN s
    ELSE
      LET k == Call(Call(s, "Datapath.Start", dp_status),
                    "Datapath.Rekey", dp_status)
      IN IF dp_status # OkStatus THEN k
         ELSE [StartTimer(CancelTimer(k, k.rekey_timer_id), "rekey") EXCEPT
                 !.rekey_timer_id = NextTimerId(CancelTimer(k, k.rekey_timer_id)),
                 !.successful_rekeys = @ + 1]

\* A session that never arms the rekey timer on its first connection.
EgressAvailableWithoutRekeyTimer(s, rekey, dp_status, outcome) ==
  IF rekey \/ s.state # kInitialized THEN s
  ELSE
    LET d == Call(Notify([s EXCEPT !.state = kControlPlaneConnected],
                         "ControlPlaneConnected", OkStatus),
                  "Datapath.Start", dp_status)
    IN IF dp_status # OkStatus
       THEN [Notify(d, "ControlPlaneDisconnected", dp_status) EXCEPT
               !.latest_status = dp_status, !.state = kSessionError]
       ELSE [d EXCEPT !.state = kConnected]

\* A session that counts itself connected even though Datapath.Start failed.
EgressAvailableIgnoringStartError(s, rekey, dp_status, outcome) ==
  IF rekey \/ s.state # kInitialized THEN s
  ELSE
    LET t == [StartTimer(s, "rekey") EXCEPT
                !.rekey_timer_id = NextTimerId(s),
                !.state = kConnected]
    IN Call(Notify(t, "ControlPlaneConnected", OkStatus),
            "Datapath.Start", dp_status)

\* Session::EgressAvailable(is_rekey).  Initial flow: rekey timer,
\* ControlPlaneConnected, Datapath.Start (returning dp_status), then the
\* network set before connecting, if any.  Rekey flow: Datapath.Rekey.
EgressAvailable(s, rekey, dp_status, outcome) ==
  IF ~rekey
  THEN
    IF s.state # kInitialized THEN s
    ELSE
      LET t == [StartTimer(s, "rekey") EXCEPT
                  !.rekey_timer_id = NextTimerId(s),
                  !.state = kControlPlaneConnected]
          d == Call(Notify(t, "ControlPlaneConnected", OkStatus),
                    "Datapath.Start", dp_status)
      IN IF dp_status # OkStatus
         THEN [Notify(d, "ControlPlaneDisconnected", dp_status) EXCEPT
                 !.latest_status = dp_status, !.state = kSessionError]
         ELSE
           LET c == [d EXCEPT !.state = kConnected]
           IN IF c.active_network_info = NoNetwork THEN c
              ELSE SwitchDatapath(c, AllEndpoints(egress_point_sock_addr),
                                  outcome)
  ELSE
    IF s.state # kConnected THEN s
    ELSE
      LET k == Call(s, "Datapath.Rekey", dp_status)
      IN IF dp_status # OkStatus THEN k
         ELSE [StartTimer(CancelTimer(k, k.rekey_timer_id), "rekey") EXCEPT
                 !.rekey_timer_id = NextTimerId(CancelTimer(k, k.rekey_timer_id)),
                 !.successful_rekeys = @ + 1]

\* Session::DoRekey(), also run when the rekey timer fires.
DoRekey(s) ==
  IF s.state # kConnected THEN s
  ELSE AuthStart([s EXCEPT !.is_rekey = TRUE, !.rekey_requests = @ + 1], TRUE)

\* A Stop() that leaves the rekey timer running.
StopKeepingRekeyTimer(s) ==
  LET c == CancelTimer(s, s.reattempt_timer_id)
      p == Release(Release(c, c.active_tun_pipe), c.active_network_pipe)
  IN [Call(p, "Datapath.Stop", OkStatus) EXCEPT
        !.reattempt_timer_id = kInvalidTimerId,
        !.active_tun_pipe = NoPipe,
        !.active_network_pipe = NoPipe,
        !.datapath_network_pipe = NoPipe,
        !.state = kStopped]

\* Session::Stop(): cancels the timers, stops the datapath, releases the pipes.
Stop(s) ==
  LET c == CancelTimer(CancelTimer(s, s.reattempt_timer_id), s.rekey_timer_id)
      p == Release(Release(c, c.active_tun_pipe), c.active_network_pipe)
  IN [Call(p, "Datapath.Stop", OkStatus) EXCEPT
        !.reattempt_timer_id = kInvalidTimerId,
        !.rekey_timer_id = kInvalidTimerId,
        !.active_tun_pipe = NoPipe,
        !.active_network_pipe = NoPipe,
        !.datapath_network_pipe = NoPipe,
        !.state = kStopped]

\* Session::GetDebugInfo(): state, status, successful_rekeys, network_switches.
GetDebugInfo(s) ==
  [state |-> s.state, status |-> s.latest_status,
   successful_rekeys |-> s.successful_rekeys,
   network_switches |-> s.network_switches]

\* One task of the notification thread, run to completion.
RunTask(s, task, st, outcome) ==
  CASE task.task = "AuthSuccessful" -> AuthSuccessful(s, task.arg, st)
    [] task.task = "AuthFailure" -> AuthFailure(s, task.arg)
    [] task.task = "EgressAvailable" -> EgressAvailable(s, task.arg, st, outcome)
    [] task.task = "AttemptDatapathReconnect" ->
         AttemptDatapathReconnect(s, outcome)
    [] task.task = "RekeyTimer" -> DoRekey(s)

\* The statuses the collaborator called by a task can return.
TaskStatuses(task) ==
  CASE task.task = "AuthSuccessful" -> EgressStatuses
    [] task.task = "EgressAvailable" ->
         IF task.arg THEN RekeyStatuses ELSE DatapathStartStatuses
    [] OTHER -> {OkStatus}

\* The switch outcomes a task can meet.
TaskOutcomes(task) ==
  IF task.task \in {"EgressAvailable", "AttemptDatapathReconnect"}
       /\ state \in {kInitialized, kConnected}
  THEN SwitchOutcomes ELSE {"ok"}

\* ----------------------------------------------- the run of failures so far
\* The names of what a handler did.
Names(o) == {o[i].name : i \in 1..Len(o)}

\* The failure run after handler op, which turned session b into session r.
FailureRun(b, r, op) ==
  LET run == b.failure_run
      last == IF run.log = << >> THEN [ev |-> "none"] ELSE run.log[Len(run.log)]
      retried == last.ev = "DatapathFailed" /\ last.retry
      switches == {i \in 1..Len(r.out) : r.out[i].name = "Datapath.SwitchNetwork"}
  IN IF b.state # kConnected THEN BrokenRun
     ELSE IF op = "DatapathEstablished" THEN CleanRun
     ELSE IF op = "DatapathFailed"
     THEN IF run.clean /\ ~retried /\ (last.ev = "none" \/ last.ev = "Reattempt")
          THEN [run EXCEPT !.log = Append(@,
                  [ev |-> "DatapathFailed",
                   retry |-> "StartTimer.500ms" \in Names(r.out),
                   did |-> [i \in 1..Len(r.out) |-> r.out[i].name]])]
          ELSE BrokenRun
     ELSE IF op = "AttemptDatapathReconnect"
     THEN IF run.clean /\ retried /\ r.reattempt_count = b.reattempt_count
               /\ switches # {}
          THEN [run EXCEPT !.log = Append(@,
                  [ev |-> "Reattempt",
                   retry |-> FALSE,
                   did |-> [i \in 1..Len(r.out) |->
                             IF i \in switches THEN r.out[i].arg.endpoints
                             ELSE << >>]])]
          ELSE BrokenRun
     ELSE IF op \in {"SetNetwork", "Stop", "DatapathPermanentFailure"}
     THEN BrokenRun
     ELSE run

\* Whether a reconnect attempt is in flight after handler op, which turned
\* session b into session r: a reattempt whose SwitchNetwork returned OK starts
\* one, DatapathEstablished and DatapathFailed answer it, Stop ends it.
InFlight(b, r, op) ==
  IF op = "AttemptDatapathReconnect"
  THEN /\ "Datapath.SwitchNetwork" \in Names(r.out)
       /\ "StartTimer.500ms" \notin Names(r.out)
       /\ "DatapathDisconnected" \notin Names(r.out)
  ELSE IF op \in {"DatapathEstablished", "DatapathFailed", "Stop"} THEN FALSE
  ELSE b.reconnect_in_flight

\* Handler op turned session b into session r.  A handler that returned at
\* once, having done nothing, leaves everything as it was.
Ran(b, r, op) ==
  IF r = b THEN [b EXCEPT !.out = out]
  ELSE [r EXCEPT !.failure_run = FailureRun(b, r, op),
                 !.reconnect_in_flight = InFlight(b, r, op)]

\* The session before a handler runs: nothing done yet.
Before == [Cur EXCEPT !.out = << >>]

\* ---------------------------------------------------------------- actions
\* The embedder calls Start(), once.
DoStart ==
  /\ ~started
  /\ \E r \in {Ran(Before, Start(Before), "Start")} : Set(r)

\* Auth answers its oldest Start with success.
AuthSucceeds ==
  /\ auth_inflight # << >>
  /\ Len(queue) < MaxQueue
  /\ Set([Before EXCEPT
            !.auth_inflight = Tail(@),
            !.queue = Append(@, [task |-> "AuthSuccessful",
                                 arg |-> Head(auth_inflight)])])

\* Auth answers its oldest Start with a failure.
AuthFails ==
  /\ auth_inflight # << >>
  /\ Len(queue) < MaxQueue
  /\ \E st \in AuthFailureStatuses :
       Set([Before EXCEPT
              !.auth_inflight = Tail(@),
              !.queue = Append(@, [task |-> "AuthFailure", arg |-> st])])

\* A pending timer fires: its callback is posted to the notification thread.
TimerFires ==
  /\ Len(queue) < MaxQueue
  /\ \E t \in timers :
    Set([Before EXCEPT
           !.timers = @ \ {t},
           !.queue = Append(@, [task |->
              IF t.kind = "reattempt" THEN "AttemptDatapathReconnect"
              ELSE "RekeyTimer", arg |-> OkStatus])])

\* The notification thread runs its oldest task.
NotificationThreadRuns ==
  /\ queue # << >>
  /\ \E st \in TaskStatuses(Head(queue)), outcome \in TaskOutcomes(Head(queue)) :
       \E b \in {[Before EXCEPT !.queue = Tail(@)]} :
         \E r \in {Ran(b, RunTask(b, Head(queue), st, outcome),
                       Head(queue).task)} :
           Bounded(r) /\ Set(r)

\* The embedder reports the current network.
DoSetNetwork ==
  \E ni \in NetworkInfos \cup {NoNetwork},
     outcome \in IF state = kConnected THEN SwitchOutcomes ELSE {"ok"} :
    \E r \in {Ran(Before, SetNetwork(Before, ni, outcome), "SetNetwork")} :
      Bounded(r) /\ Set(r)

\* The datapath reports that it is established.
DoDatapathEstablished ==
  \E r \in {Ran(Before, DatapathEstablished(Before), "DatapathEstablished")} :
      Bounded(r) /\ Set(r)

\* The datapath reports a failure.
DoDatapathFailed ==
  \E st \in DatapathFailedStatuses :
    \E r \in {Ran(Before, DatapathFailed(Before, st), "DatapathFailed")} :
      Bounded(r) /\ Set(r)

\* The datapath reports a permanent failure.
DoDatapathPermanentFailure ==
  \E r \in {Ran(Before, DatapathPermanentFailure(Before, InvalidArgument),
               "DatapathPermanentFailure")} :
      Bounded(r) /\ Set(r)

\* The embedder asks for a rekey.
DoDoRekey ==
  \E r \in {Ran(Before, DoRekey(Before), "DoRekey")} :
      Bounded(r) /\ Set(r)

\* The embedder stops the session.
DoStop ==
  /\ state # kStopped
  /\ \E r \in {Ran(Before, Stop(Before), "Stop")} :
      Bounded(r) /\ Set(r)

Next ==
  \/ DoStart
  \/ AuthSucceeds
  \/ AuthFails
  \/ TimerFires
  \/ NotificationThreadRuns
  \/ DoSetNetwork
  \/ DoDatapathEstablished
  \/ DoDatapathFailed
  \/ DoDatapathPermanentFailure
  \/ DoDoRekey
  \/ DoStop

Spec == Init /\ [][Next]_vars

TypeOK ==
  /\ state \in States
  /\ reattempt_count \in 0..MAX_REATTEMPTS
  /\ Bounded(Cur)


\* ------------------------------------------------------------- properties
\* The notification thread is about to run this task, and this step runs it.
RunsTask(name, arg) ==
  /\ queue # << >>
  /\ Head(queue).task = name
  /\ Head(queue).arg = arg
  /\ NotificationThreadRuns

\* What the last handler did was this one thing.
Only(o, name, arg) == Len(o) = 1 /\ o[1].name = name /\ o[1].arg = arg

\* The names of what the last handler did, in order.
OutNames(o) == [i \in 1..Len(o) |-> o[i].name]

\* The entries of what the last handler did that have this name.
Entries(o, name) == {i \in 1..Len(o) : o[i].name = name}

\* C1: an AuthFailure with PermissionDenied delivers exactly one
\* PermanentFailure carrying that status and nothing else, leaves the session
\* in PermanentError with the status recorded; in the flow that follows
\* Start() no ControlPlaneDisconnected is, or has been, delivered.
C1_PermissionDeniedIsPermanent ==
  [][RunsTask("AuthFailure", PermissionDenied) =>
       /\ Only(out', "PermanentFailure", PermissionDenied)
       /\ state' = kPermanentError
       /\ latest_status' = PermissionDenied
       /\ (state = kInitialized =>
             "ControlPlaneDisconnected" \notin delivered')]_vars

\* C1 happens: the first auth flow ended in PermanentFailure.
C1_Witness ==
  /\ state = kPermanentError
  /\ Only(out, "PermanentFailure", PermissionDenied)
  /\ delivered = {"PermanentFailure"}

\* C2: an AuthFailure with a status other than PermissionDenied, in whatever
\* state it arrives, delivers exactly one ControlPlaneDisconnected carrying
\* that status, records the status and leaves the session in SessionError.
C2_OtherAuthFailureIsSessionError ==
  [][\A st \in AuthFailureStatuses \ {PermissionDenied} :
       RunsTask("AuthFailure", st) =>
         /\ Only(out', "ControlPlaneDisconnected", st)
         /\ latest_status' = st
         /\ state' = kSessionError]_vars

\* C2 happens, and not only in the first flow: the failure arrived after the
\* control plane had connected (the auth of a rekey failed).
C2_Witness ==
  /\ state = kSessionError
  /\ Only(out, "ControlPlaneDisconnected", Internal)
  /\ latest_status = Internal
  /\ "ControlPlaneConnected" \in delivered

\* The entry of what the last handler did that has this name and argument.
Did(o, name, arg) ==
  \E i \in 1..Len(o) : o[i].name = name /\ o[i].arg = arg

\* C3: on the happy path (Start, AuthSuccessful(false), egress OK,
\* EgressAvailable(false), Datapath.Start OK, no network set yet) the step
\* that runs EgressAvailable delivers ControlPlaneConnected once, starts the
\* five-minute rekey timer once and keeps its id, and ends in Connected with
\* latest_status OK.
C3_HappyPathConnects ==
  [][(/\ RunsTask("EgressAvailable", FALSE)
      /\ state = kInitialized
      /\ active_network_info = NoNetwork
      /\ Did(out', "Datapath.Start", OkStatus)) =>
       /\ Cardinality(Entries(out', "ControlPlaneConnected")) = 1
       /\ Cardinality(Entries(out', "StartTimer.5min")) = 1
       /\ rekey_timer_id' # kInvalidTimerId
       /\ rekey_timer_id' \in {t.id : t \in {u \in timers' : u.kind = "rekey"}}
       /\ state' = kConnected
       /\ latest_status' = OkStatus]_vars

\* C3 happens: the session has just connected without a network.
C3_Witness ==
  /\ state = kConnected
  /\ latest_status = OkStatus
  /\ active_network_info = NoNetwork
  /\ Did(out, "ControlPlaneConnected", OkStatus)
  /\ Did(out, "Datapath.Start", OkStatus)
  /\ rekey_timer_id # kInvalidTimerId

\* C4: when the Egress Manager answers a successful first auth with an error,
\* the session delivers one ControlPlaneDisconnected carrying that error,
\* records it, ends in SessionError, posts nothing further, and Datapath.Start
\* is not invoked then or ever after.
C4_EgressErrorIsSessionError ==
  /\ [][\A st \in EgressStatuses \ {OkStatus} :
          (/\ RunsTask("AuthSuccessful", FALSE)
           /\ state = kInitialized
           /\ Did(out', "EgressManager.GetEgressNode",
                  [is_rekey |-> FALSE, status |-> st])) =>
            /\ OutNames(out') = << "EgressManager.GetEgressNode",
                                   "ControlPlaneDisconnected" >>
            /\ out'[2].arg = st
            /\ latest_status' = st
            /\ state' = kSessionError
            /\ queue' = << >>
            /\ "Datapath.Start" \notin called']_vars
  /\ [][(state = kSessionError /\ "Datapath.Start" \notin called) =>
          "Datapath.Start" \notin called']_vars

\* C4 happens: the egress request of the first flow failed.
C4_Witness ==
  /\ state = kSessionError
  /\ latest_status = NotFound
  /\ Did(out, "ControlPlaneDisconnected", NotFound)
  /\ "Datapath.Start" \notin called

\* C5: when Datapath.Start fails in the first flow, the session delivers one
\* ControlPlaneDisconnected carrying that error, records it, and ends in
\* SessionError; from SessionError it never becomes Connected.
C5_DatapathStartErrorIsSessionError ==
  /\ [][\A st \in DatapathStartStatuses \ {OkStatus} :
          (/\ RunsTask("EgressAvailable", FALSE)
           /\ state = kInitialized
           /\ Did(out', "Datapath.Start", st)) =>
            /\ Entries(out', "ControlPlaneDisconnected") # {}
            /\ \A i \in Entries(out', "ControlPlaneDisconnected") :
                 /\ out'[i].arg = st
                 /\ i = Len(out')
            /\ latest_status' = st
            /\ state' = kSessionError]_vars
  /\ [][state = kSessionError => state' # kConnected]_vars

\* C5 happens: the datapath of the first flow failed to start.
C5_Witness ==
  /\ state = kSessionError
  /\ latest_status = InvalidArgument
  /\ Did(out, "Datapath.Start", InvalidArgument)
  /\ Did(out, "ControlPlaneDisconnected", InvalidArgument)

\* C6: once the state is PermanentError it stays PermanentError, whatever
\* event follows (Stop, SetNetwork, DatapathFailed, AuthFailure, ...).
C6_PermanentErrorIsAbsorbing ==
  [][state = kPermanentError => state' = kPermanentError]_vars

\* C7, as stated: Connected implies latest_status OK and a tun pipe.
C7_ConnectedImpliesOkAndTunnel ==
  state = kConnected =>
    latest_status = OkStatus /\ active_tun_pipe # NoPipe

\* C7, amended: Connected implies that latest_status is OK or the status of
\* a datapath failure reported since connecting, and that the tun pipe is
\* present whenever a network pipe is installed; the session enters
\* Connected with latest_status OK and, no network having been set, without
\* a tunnel.
C7_ConnectedStatusAndTunnel ==
  /\ state = kConnected =>
       /\ latest_status \in {OkStatus} \cup DatapathFailedStatuses
       /\ active_network_pipe # NoPipe => active_tun_pipe # NoPipe
       /\ datapath_network_pipe # NoPipe => active_tun_pipe # NoPipe
  /\ (state = kConnected /\ Did(out, "Datapath.Start", OkStatus)
        /\ active_network_info = NoNetwork) =>
       latest_status = OkStatus /\ active_tun_pipe = NoPipe

\* C7 happens: a connected session with a network pipe and a tunnel whose
\* latest_status records a datapath failure.
C7_Witness ==
  /\ state = kConnected
  /\ active_network_pipe # NoPipe
  /\ active_tun_pipe # NoPipe
  /\ latest_status = Internal

\* C8: DatapathConnected is delivered only when ControlPlaneConnected was
\* delivered earlier, also when SetNetwork or DatapathEstablished are posted
\* before the auth response.
C8_DatapathConnectedAfterControlPlane ==
  [][("DatapathConnected" \in delivered') =>
       ("ControlPlaneConnected" \in delivered)]_vars

\* C8 happens: the network was set before the control plane connected, and
\* DatapathConnected has just been delivered on that network.
C8_Witness ==
  /\ Did(out, "DatapathConnected", OkStatus)
  /\ "ControlPlaneConnected" \in delivered
  /\ active_network_info # NoNetwork
  /\ network_switches = kInitialNetworkSwitches + 1

\* This step delivers notification n.
Delivers(n) == OutNames(out') # OutNames(out) /\ n \in Names(out')

\* C9, as stated: within one connected episode ControlPlaneConnected is
\* delivered at most once and DatapathConnected at most once.
C9_EachAtMostOnce ==
  [][/\ "ControlPlaneConnected" \in delivered =>
          ~ Delivers("ControlPlaneConnected")
     /\ "DatapathConnected" \in delivered =>
          ~ Delivers("DatapathConnected")]_vars

\* This step is a DatapathEstablished that ends a datapath failure: the
\* session stays Connected and its reattempt count returns to zero.
EstablishedAfterFailure ==
  /\ state = kConnected /\ state' = kConnected
  /\ reattempt_count > 0 /\ reattempt_count' = 0

\* C9, amended: ControlPlaneConnected is delivered at most once; every
\* DatapathEstablished handled in Connected delivers DatapathConnected, once,
\* so an episode sees it again when the datapath recovers from a failure.
C9_ControlPlaneOnceDatapathPerEstablishment ==
  [][/\ "ControlPlaneConnected" \in delivered =>
          ~ Delivers("ControlPlaneConnected")
     /\ EstablishedAfterFailure =>
          Only(out', "DatapathConnected", OkStatus)]_vars

\* C9 happens: DatapathConnected is delivered again, after a failure, in an
\* episode that had delivered it before.
C9_Witness ==
  /\ state = kConnected
  /\ Only(out, "DatapathConnected", OkStatus)
  /\ reattempt_count = 0
  /\ latest_status = Internal

\* The primary address of a family.
Primary(fam) == Head(OfFamily(egress_point_sock_addr, fam)).addr

\* A run of consecutive failures, each followed by its reattempt, in which the
\* first `retries` failures are retried on the endpoints of `plan` and the
\* next failure starts no timer and delivers one DatapathDisconnected.
RunFollows(log, retries, plan) ==
  \A i \in 1..Len(log) :
    LET k == (i + 1) \div 2
        e == log[i]
    IN IF i % 2 = 1
       THEN /\ e.ev = "DatapathFailed"
            /\ IF k <= retries
               THEN /\ e.retry
                    /\ e.did = << "StartTimer.500ms" >>
               ELSE /\ ~ e.retry
                    /\ e.did = << "DatapathDisconnected" >>
       ELSE /\ e.ev = "Reattempt"
            /\ {e.did[j] : j \in 1..Len(e.did)} \ { << >> } =
                 { << Primary(plan[k]) >> }
            /\ Cardinality({j \in 1..Len(e.did) : e.did[j] # << >>}) = 1

C11_ReattemptCountInRange ==
  reattempt_count >= 0 /\ reattempt_count <= MAX_REATTEMPTS

\* C11 happens: a failure arrived with the reattempts used up; the count is
\* at the largest value the session gives it.
C11_Witness ==
  /\ state = kConnected
  /\ reattempt_count = MAX_REATTEMPTS - 1
  /\ OutNames(out) = << "DatapathDisconnected" >>

\* C12: in every reachable Connected state, with or without earlier
\* failures and with or without a reattempt timer pending, handling
\* DatapathEstablished leaves reattempt_count 0 and reattempt_timer_id -1,
\* takes the pending reattempt timer away from the TimerManager and notifies
\* DatapathConnected; so whenever DatapathConnected is what the session did
\* last, the count is 0 and no reattempt timer id is held.
C12_EstablishedResetsReattempts ==
  /\ state = kConnected =>
       LET r == DatapathEstablished(Before)
       IN /\ r.reattempt_count = 0
          /\ r.reattempt_timer_id = kInvalidTimerId
          /\ \A t \in r.timers : t.id # reattempt_timer_id
          /\ Only(r.out, "DatapathConnected", OkStatus)
          /\ r.state = kConnected
  /\ (Len(out) = 1 /\ out[1].name = "DatapathConnected") =>
       reattempt_count = 0 /\ reattempt_timer_id = kInvalidTimerId

\* C12 happens: DatapathEstablished was handled after a failure; the count is
\* back at 0, no reattempt timer id is held and only the rekey timer is left.
C12_Witness ==
  /\ state = kConnected
  /\ Only(out, "DatapathConnected", OkStatus)
  /\ latest_status = Internal
  /\ reattempt_count = 0
  /\ reattempt_timer_id = kInvalidTimerId
  /\ \A t \in timers : t.kind = "rekey"

\* C13: in Connected, between events, reattempt_count > 0 implies that a
\* reattempt timer is held (reattempt_timer_id is not -1) or that a reconnect
\* attempt is in flight; the state after the reattempts are used up and
\* DatapathDisconnected has been delivered is included.
C13_ReattemptsHaveTimerOrAttempt ==
  (state = kConnected /\ reattempt_count > 0) =>
    (reattempt_timer_id # kInvalidTimerId \/ reconnect_in_flight)

\* C14: in every reachable Connected state, handling SetNetwork with a
\* network ni, whatever the VPN service and the datapath answer, invokes
\* CreateProtectedNetworkSocket exactly once, for ni; the pipe it returns is
\* one the session did not hold before, and the SwitchNetwork call that
\* follows (one when all goes well, none when the VPN service failed)
\* carries ni and that pipe.
C14_SetNetworkSocketOnceAndPassed ==
  state = kConnected =>
    \A ni \in NetworkInfos, outcome \in SwitchOutcomes :
      LET r == SetNetwork(Before, ni, outcome)
          socks == Entries(r.out, "VpnService.CreateProtectedNetworkSocket")
          sws == Entries(r.out, "Datapath.SwitchNetwork")
      IN /\ Cardinality(socks) = 1
         /\ Cardinality(sws) <= 1
         /\ outcome = "ok" => Cardinality(sws) = 1
         /\ \A i \in socks :
              /\ r.out[i].arg.network_info = ni
              /\ r.out[i].arg.pipe \notin
                   live_pipes \cup {active_network_pipe, datapath_network_pipe}
                 \/ r.out[i].arg.pipe = NoPipe
              /\ \A j \in sws :
                   /\ i < j
                   /\ r.out[j].arg.network_info = ni
                   /\ r.out[j].arg.network_pipe = r.out[i].arg.pipe
                   /\ r.out[j].arg.network_pipe # NoPipe

\* C14 happens: a connected session with a tunnel has just handled
\* SetNetwork on a second network; socket and switch were called once each
\* and the switch carried the new pipe, which the session now holds.
C14_Witness ==
  /\ state = kConnected
  /\ network_switches = kInitialNetworkSwitches + 2
  /\ OutNames(out) = << "VpnService.CreateProtectedNetworkSocket",
                        "Datapath.SwitchNetwork" >>
  /\ out[2].arg.endpoints = AllEndpoints(egress_point_sock_addr)
  /\ out[2].arg.network_pipe = out[1].arg.pipe
  /\ active_network_pipe = out[1].arg.pipe

\* A step in which the VPN service is asked for a tunnel.
CreatesTunnel ==
  /\ OutNames(out') # OutNames(out)
  /\ "VpnService.CreateTunnel" \in Names(out')

\* C15, as stated: CreateTunnel is invoked once in a connected episode, never
\* a second time, and a tun pipe once held is not changed by later switches
\* and reattempts.
C15_TunnelCreatedExactlyOnce ==
  [][/\ "VpnService.CreateTunnel" \in called => ~ CreatesTunnel
     /\ (state = kConnected /\ state' = kConnected
           /\ active_tun_pipe # NoPipe) =>
          active_tun_pipe' = active_tun_pipe]_vars

\* What a network switch or a reattempt, which turns the connected session
\* into r, does about the tunnel: none is created and the one held is passed
\* on and kept when there is one; one is asked for when there is none.
TunnelKept(r) ==
  IF active_tun_pipe # NoPipe
  THEN /\ Entries(r.out, "VpnService.CreateTunnel") = {}
       /\ r.active_tun_pipe = active_tun_pipe
       /\ \A j \in Entries(r.out, "Datapath.SwitchNetwork") :
            r.out[j].arg.tun_pipe = active_tun_pipe
  ELSE /\ Cardinality(Entries(r.out, "VpnService.CreateTunnel")) <= 1
       /\ \A j \in Entries(r.out, "Datapath.SwitchNetwork") :
            r.out[j].arg.tun_pipe = r.active_tun_pipe

\* C15, amended: CreateTunnel is invoked on the first switch to a network
\* after the control plane connected and, when it returned no pipe, again on
\* the next switch or reattempt; once the session holds a tun pipe, no
\* SetNetwork (same or other network, or none) and no reattempt invokes
\* CreateTunnel, each passes that pipe to SwitchNetwork and leaves
\* active_tun_pipe unchanged.
C15_TunnelCreatedUntilHeld ==
  /\ active_tun_pipe # NoPipe => "VpnService.CreateTunnel" \in called
  /\ state = kConnected =>
       \A outcome \in SwitchOutcomes :
         /\ \A ni \in NetworkInfos \cup {NoNetwork} :
              TunnelKept(SetNetwork(Before, ni, outcome))
         /\ TunnelKept(AttemptDatapathReconnect(Before, outcome))
         /\ active_tun_pipe = NoPipe =>
              \A ni \in NetworkInfos :
                LET r == SetNetwork(Before, ni, outcome)
                IN outcome \in {"ok", "switch_fail"} =>
                     /\ Cardinality(Entries(r.out, "VpnService.CreateTunnel")) = 1
                     /\ r.active_tun_pipe # NoPipe

\* C15 happens: a connected session holding a tun pipe has just made a
\* reattempt, which created a socket, no tunnel, and passed the pipe on.
C15_Witness ==
  /\ state = kConnected
  /\ active_tun_pipe # NoPipe
  /\ OutNames(out) = << "VpnService.CreateProtectedNetworkSocket",
                        "Datapath.SwitchNetwork" >>
  /\ Len(out[2].arg.endpoints) = 1
  /\ out[2].arg.tun_pipe = active_tun_pipe

\* C16: in every reachable Connected state, handling SetNetwork with no
\* network issues one SwitchNetwork, first of all, with no network_info and
\* no network pipe and with the tun pipe the session holds; it asks the VPN
\* service for neither a tunnel nor a socket and leaves active_tun_pipe as
\* it was.
C16_NoNetworkSwitch ==
  state = kConnected =>
    \A outcome \in SwitchOutcomes :
      LET r == SetNetwork(Before, NoNetwork, outcome)
      IN /\ Entries(r.out, "Datapath.SwitchNetwork") = {1}
         /\ r.out[1].arg.network_info = NoNetwork
         /\ r.out[1].arg.network_pipe = NoPipe
         /\ r.out[1].arg.tun_pipe = active_tun_pipe
         /\ Entries(r.out, "VpnService.CreateTunnel") = {}
         /\ Entries(r.out, "VpnService.CreateProtectedNetworkSocket") = {}
         /\ r.active_tun_pipe = active_tun_pipe
         /\ r.active_network_info = NoNetwork

\* C16 happens: a connected session holding a tun pipe has just been told
\* that there is no network and has switched the datapath to none.
C16_Witness ==
  /\ state = kConnected
  /\ active_network_info = NoNetwork
  /\ active_tun_pipe # NoPipe
  /\ OutNames(out) = << "Datapath.SwitchNetwork" >>
  /\ out[1].arg.network_pipe = NoPipe
  /\ out[1].arg.tun_pipe = active_tun_pipe

\* The fds of live pipes that are protected network sockets / tunnels.
LiveNetworkPipes == {p \in live_pipes : p > network_fd_counter}
LiveTunPipes == {p \in live_pipes : p <= network_fd_counter}

\* C17: between events at most one tun pipe and at most one network pipe are
\* live, and they are the ones the session holds: every pipe the VPN service
\* returned and the session replaced or could not use has been released.
C17_AtMostOnePipeOfEachKind ==
  /\ Cardinality(LiveTunPipes) <= 1
  /\ Cardinality(LiveNetworkPipes) <= 1
  /\ LiveTunPipes = {active_tun_pipe} \ {NoPipe}
  /\ LiveNetworkPipes = {active_network_pipe} \ {NoPipe}

\* C17 happens: the session has replaced its first network pipe by a second
\* one, and the second is the only live network pipe.
C17_Witness ==
  /\ state = kConnected
  /\ active_network_pipe = network_fd_counter + 2
  /\ LiveNetworkPipes = {active_network_pipe}
  /\ LiveTunPipes = {active_tun_pipe}
  /\ active_tun_pipe # NoPipe

\* C18: the network pipe the datapath was handed by its last successful
\* SwitchNetwork is live; it is released only in a step in which a
\* SwitchNetwork carrying another, live pipe returned OK, or by Stop.  When
\* the replacement socket cannot be created or SwitchNetwork fails, the
\* installed pipe stays the datapath's pipe and stays live.
C18_InstalledPipeOutlivesItsUse ==
  [][/\ datapath_network_pipe' # NoPipe =>
          datapath_network_pipe' \in live_pipes'
     /\ (datapath_network_pipe # NoPipe
           /\ datapath_network_pipe \notin live_pipes') =>
          \/ state' = kStopped
          \/ /\ datapath_network_pipe' \notin {NoPipe, datapath_network_pipe}
             /\ datapath_network_pipe' \in live_pipes'
             /\ \E j \in Entries(out', "Datapath.SwitchNetwork") :
                  /\ out'[j].arg.network_pipe = datapath_network_pipe'
                  /\ j = Len(out')]_vars

\* C18 happens: with a pipe installed in the datapath, a switch to another
\* network failed in the datapath or the VPN service; the pipe installed
\* before is still live and still the one the datapath uses.
C18_Witness ==
  /\ state = kConnected
  /\ datapath_network_pipe # NoPipe
  /\ datapath_network_pipe \in live_pipes
  /\ network_switches = kInitialNetworkSwitches + 2
  /\ "VpnService.CreateProtectedNetworkSocket" \in Names(out)
  /\ "StartTimer.500ms" \in Names(out)

\* C19: when a rekey flow succeeds (DoRekey or the rekey timer, Auth.Start(true),
\* AuthSuccessful(true), EgressAvailable(true), Datapath.Rekey OK), the step
\* that runs EgressAvailable(true) invokes Datapath.Rekey exactly once, does
\* not invoke Datapath.Start, does not notify ControlPlaneConnected, keeps
\* the session Connected and adds exactly 1 to successful_rekeys; no step
\* invokes Datapath.Start a second time and none lowers successful_rekeys.
C19_RekeySuccess ==
  /\ [][(/\ RunsTask("EgressAvailable", TRUE)
         /\ state = kConnected
         /\ Did(out', "Datapath.Rekey", OkStatus)) =>
          /\ Cardinality(Entries(out', "Datapath.Rekey")) = 1
          /\ Entries(out', "Datapath.Start") = {}
          /\ Entries(out', "ControlPlaneConnected") = {}
          /\ successful_rekeys' = successful_rekeys + 1
          /\ state' = kConnected]_vars
  /\ [][/\ successful_rekeys' >= successful_rekeys
        /\ "Datapath.Start" \in called =>
             ~ (OutNames(out') # OutNames(out)
                  /\ "Datapath.Start" \in Names(out'))]_vars

\* C19 happens: a rekey flow has just succeeded.
C19_Witness ==
  /\ state = kConnected
  /\ successful_rekeys = 1
  /\ Did(out, "Datapath.Rekey", OkStatus)
  /\ rekey_requests = 1

\* C20: in every reachable Connected state, handling
\* DatapathPermanentFailure(s) delivers DatapathDisconnected with the active
\* network and s and does nothing else: no timer is started, reattempt_count
\* and reattempt_timer_id stay as they are, no task is posted and the session
\* stays Connected.
C20_PermanentFailureDisconnectsAtOnce ==
  state = kConnected =>
    \A st \in {InvalidArgument, Internal} :
      LET r == DatapathPermanentFailure(Before, st)
      IN /\ Only(r.out, "DatapathDisconnected",
                 [network_info |-> active_network_info, status |-> st])
         /\ r.timers = timers
         /\ r.reattempt_count = reattempt_count
         /\ r.reattempt_timer_id = reattempt_timer_id
         /\ Len(r.queue) = Len(queue)
         /\ r.state = kConnected

\* C20 happens: a permanent failure was reported while a reattempt was
\* pending; DatapathDisconnected went out and the reattempt stands as it was.
C20_Witness ==
  /\ state = kConnected
  /\ OutNames(out) = << "DatapathDisconnected" >>
  /\ out[1].arg.status = InvalidArgument
  /\ reattempt_count = 1
  /\ reattempt_timer_id # kInvalidTimerId

\* The session has ended: Stop() was called or an error was reported.
Ended == state \in {kStopped, kPermanentError, kSessionError}

\* The step changes no session variable, delivers no notification and calls
\* no collaborator.
NoOpStep ==
  /\ UNCHANGED << state, latest_status, active_network_info, active_tun_pipe,
                  active_network_pipe, reattempt_count, reattempt_timer_id,
                  rekey_timer_id, successful_rekeys, network_switches,
                  is_rekey, timers, live_pipes, datapath_network_pipe,
                  delivered, called, auth_inflight >>
  /\ OutNames(out') = OutNames(out)

\* C21: a task that the notification thread runs after the session entered
\* Stopped, PermanentError or SessionError is a no-op: it changes no session
\* variable, delivers no notification and calls no collaborator.
C21_LateTasksAreNoOps ==
  [][(Ended /\ queue # << >> /\ NotificationThreadRuns) => NoOpStep]_vars

RunsTaskNamed(name) ==
  /\ queue # << >>
  /\ Head(queue).task = name
  /\ NotificationThreadRuns

\* This step, a handler, does something of this name.
Does(n) == OutNames(out') # OutNames(out) /\ n \in Names(out')

\* The tasks of this name waiting for the notification thread.
Queued(q, name) == {i \in 1..Len(q) : q[i].task = name}

\* C23: the control-plane steps occur in order.  The Egress Manager is called
\* only by the step that handles an AuthSuccessful task; EgressAvailable is
\* posted only by such a step, after the Egress Manager answered OK;
\* ControlPlaneConnected is notified and Datapath.Start is invoked only by
\* the step that handles EgressAvailable(false), which notifies
\* ControlPlaneConnected before it invokes Datapath.Start; so Datapath.Start
\* was never invoked unless ControlPlaneConnected was notified.
C23_ControlPlaneInOrder ==
  /\ [][/\ Does("EgressManager.GetEgressNode") => RunsTaskNamed("AuthSuccessful")
        /\ (Queued(queue', "EgressAvailable") # {}
              /\ Queued(queue, "EgressAvailable") = {}) =>
             /\ RunsTaskNamed("AuthSuccessful")
             /\ Did(out', "EgressManager.GetEgressNode",
                    [is_rekey |-> Head(queue).arg, status |-> OkStatus])
        /\ (Does("ControlPlaneConnected") \/ Does("Datapath.Start")) =>
             /\ RunsTask("EgressAvailable", FALSE)
             /\ Entries(out', "ControlPlaneConnected") # {}
             /\ \A i \in Entries(out', "Datapath.Start") :
                  \E j \in Entries(out', "ControlPlaneConnected") : j < i]_vars
  /\ []("Datapath.Start" \in called => "ControlPlaneConnected" \in delivered)

\* C23 happens: with a network set beforehand, the step that handled
\* EgressAvailable notified ControlPlaneConnected and started the datapath.
C23_Witness ==
  /\ Did(out, "ControlPlaneConnected", OkStatus)
  /\ Did(out, "Datapath.Start", OkStatus)
  /\ active_network_info # NoNetwork
  /\ state = kConnected
  /\ queue = << >>

\* C24: network_switches as reported by GetDebugInfo is 1 plus the number of
\* accepted SetNetwork calls.  It is 1 in the constructed session, where
\* GetDebugInfo reports kInitialized, OK and 0 rekeys, and Start() changes
\* nothing of what GetDebugInfo reports; every SetNetwork that is accepted
\* (the session has not ended) adds exactly 1, whatever becomes of its
\* switch; a SetNetwork after the end, a reattempt, a rekey request, a rekey
\* and a datapath event add nothing; the only steps that change it add 1 and
\* run no task.
C24_NetworkSwitchesCountsSetNetwork ==
  /\ GetDebugInfo(Cur) =
       [state |-> "kInitialized", status |-> "OK", successful_rekeys |-> 0,
        network_switches |-> 1]
  /\ [][(~started /\ started') => GetDebugInfo(Cur)' = GetDebugInfo(Cur)]_vars
  /\ [](\A ni \in NetworkInfos \cup {NoNetwork}, outcome \in SwitchOutcomes :
          GetDebugInfo(SetNetwork(Before, ni, outcome)).network_switches =
            GetDebugInfo(Cur).network_switches + (IF Ended THEN 0 ELSE 1))
  /\ [](\A outcome \in SwitchOutcomes, st \in RekeyStatuses :
          /\ AttemptDatapathReconnect(Before, outcome).network_switches =
               network_switches
          /\ DoRekey(Before).network_switches = network_switches
          /\ EgressAvailable(Before, TRUE, st, outcome).network_switches =
               network_switches
          /\ DatapathFailed(Before, Internal).network_switches =
               network_switches
          /\ DatapathEstablished(Before).network_switches = network_switches)
  /\ [][network_switches' # network_switches =>
          /\ network_switches' = network_switches + 1
          /\ ~ Ended
          /\ Len(queue') = Len(queue)
          /\ timers \subseteq timers'
          /\ successful_rekeys' = successful_rekeys]_vars

\* C24 happens: after two accepted SetNetwork calls, a rekey and a reattempt
\* of the datapath, GetDebugInfo reports network_switches 3.
C24_Witness ==
  /\ GetDebugInfo(Cur).network_switches = kInitialNetworkSwitches + 2
  /\ GetDebugInfo(Cur).successful_rekeys = 1
  /\ GetDebugInfo(Cur).state = "kConnected"
  /\ reattempt_count = 2
  /\ "Datapath.SwitchNetwork" \in Names(out)
  /\ reattempt_timer_id = kInvalidTimerId

\* The entries of what the last handler did that come after entry i.
After(o, i, name) == {j \in Entries(o, name) : j > i}

\* C25: a SetNetwork(ni) handled before the session is Connected is accepted
\* (ni becomes the active network) and does nothing else at that time.  The
\* step that handles EgressAvailable(false) and starts the datapath applies
\* it: after ControlPlaneConnected and Datapath.Start it asks once for a
\* protected socket on ni and, when the VPN service and the datapath do not
\* fail, creates the tunnel once and issues one Datapath.SwitchNetwork on ni;
\* in the state it reaches, DatapathEstablished yields DatapathConnected.
C25_NetworkSetBeforeConnecting ==
  /\ [](state \in {kInitialized, kEgressSessionCreated, kControlPlaneConnected}
          => \A ni \in NetworkInfos, outcome \in SwitchOutcomes :
               LET r == SetNetwork(Before, ni, outcome)
               IN /\ r.out = << >>
                  /\ r.active_network_info = ni
                  /\ r.state = state)
  /\ [][(/\ RunsTask("EgressAvailable", FALSE)
         /\ state = kInitialized
         /\ active_network_info # NoNetwork
         /\ Did(out', "Datapath.Start", OkStatus)) =>
          \E i \in Entries(out', "Datapath.Start") :
            /\ \E j \in Entries(out', "ControlPlaneConnected") : j < i
            /\ Cardinality(Entries(out', "Datapath.Start")) = 1
            /\ Entries(out', "VpnService.CreateProtectedNetworkSocket") =
                 After(out', i, "VpnService.CreateProtectedNetworkSocket")
            /\ Entries(out', "VpnService.CreateTunnel") =
                 After(out', i, "VpnService.CreateTunnel")
            /\ Entries(out', "Datapath.SwitchNetwork") =
                 After(out', i, "Datapath.SwitchNetwork")
            /\ Cardinality(Entries(out', "VpnService.CreateProtectedNetworkSocket")) = 1
            /\ \A j \in Entries(out', "VpnService.CreateProtectedNetworkSocket") :
                 out'[j].arg.network_info = active_network_info
            /\ "StartTimer.500ms" \notin Names(out') =>
                 /\ Cardinality(Entries(out', "VpnService.CreateTunnel")) = 1
                 /\ Cardinality(Entries(out', "Datapath.SwitchNetwork")) = 1
                 /\ \A j \in Entries(out', "Datapath.SwitchNetwork") :
                      /\ out'[j].arg.network_info = active_network_info
                      /\ out'[j].arg.tun_pipe = active_tun_pipe'
                      /\ out'[j].arg.tun_pipe # NoPipe
            /\ state' = kConnected
            /\ Only(DatapathEstablished(Before).out, "DatapathConnected",
                    OkStatus)']_vars

\* C25 happens: the network was set before the auth response; the step that
\* connected the control plane has just switched the datapath to it.
C25_Witness ==
  /\ state = kConnected
  /\ network_switches = kInitialNetworkSwitches + 1
  /\ active_network_info = Cellular1234
  /\ OutNames(out) =
       << "StartTimer.5min", "ControlPlaneConnected", "Datapath.Start",
          "VpnService.CreateProtectedNetworkSocket", "VpnService.CreateTunnel",
          "Datapath.SwitchNetwork" >>
  /\ datapath_network_pipe = active_network_pipe
  /\ active_network_pipe # NoPipe

\* The families of the reattempts after the first, second and third failure.
ReattemptFamilies == << "v6", "v6", "v4" >>

C27_ExhaustedThenSetNetwork ==
  /\ [](~ Ended =>
          \A ni \in NetworkInfos, outcome \in SwitchOutcomes :
            SetNetwork(Before, ni, outcome).active_network_info = ni)
  /\ [][active_network_info' # active_network_info =>
          network_switches' = network_switches + 1]_vars
  /\ []((state = kConnected /\ reattempt_count + 1 >= MAX_REATTEMPTS) =>
          \A st \in {Internal, Unavailable} :
            LET r == DatapathFailed(Before, st)
            IN /\ Only(r.out, "DatapathDisconnected",
                       [network_info |-> active_network_info, status |-> st])
               /\ r.state = kConnected
               /\ r.timers = timers
               /\ \A ni \in NetworkInfos :
                    LET a == SetNetwork([r EXCEPT !.out = << >>], ni, "ok")
                        sw == Entries(a.out, "Datapath.SwitchNetwork")
                        so == Entries(a.out,
                                      "VpnService.CreateProtectedNetworkSocket")
                    IN /\ a.state = kConnected
                       /\ a.active_network_info = ni
                       /\ a.network_switches = network_switches + 1
                       /\ Cardinality(sw) = 1
                       /\ Cardinality(so) = 1
                       /\ \A i \in sw, j \in so :
                            /\ a.out[i].arg.network_info = ni
                            /\ a.out[i].arg.endpoints =
                                 AllEndpoints(egress_point_sock_addr)
                            /\ a.out[j].arg.network_info = ni
                            /\ a.out[i].arg.network_pipe = a.out[j].arg.pipe
                            /\ a.out[i].arg.network_pipe # NoPipe
                            /\ a.datapath_network_pipe =
                                 a.out[i].arg.network_pipe)

\* C27 happens: the second network set was wifi; with the reattempts used up
\* a failure has just been answered with DatapathDisconnected on wifi, and
\* the session is still Connected.
C27_Witness ==
  /\ state = kConnected
  /\ reattempt_count = MAX_REATTEMPTS - 1
  /\ network_switches = kInitialNetworkSwitches + 2
  /\ active_network_info = Wifi
  /\ Only(out, "DatapathDisconnected",
          [network_info |-> Wifi, status |-> Internal])
  /\ reattempt_timer_id = kInvalidTimerId

\* C28: once a failing flow has stored an error in latest_status, a later
\* error of that flow does not overwrite it: while the datapath is failing
\* (Connected, failures since the last establishment, an error recorded),
\* another DatapathFailed, with the same or another status, and an egress
\* error of a rekey leave latest_status as it is.
C28_FirstErrorIsKept ==
  (state = kConnected /\ reattempt_count > 0 /\ latest_status # OkStatus) =>
    /\ \A st \in {Internal, Unavailable} :
         DatapathFailed(Before, st).latest_status = latest_status
    /\ AuthSuccessful(Before, TRUE, NotFound).latest_status = latest_status

\* C29: a reattempt task that was already queued when DatapathEstablished
\* was handled is stale.  When the notification thread runs it, with the
\* reattempt count back at zero and no reattempt timer held, it creates no
\* protected socket, issues no Datapath.SwitchNetwork and leaves
\* reattempt_count at zero.
C29_StaleReattemptDoesNothing ==
  [][(/\ RunsTaskNamed("AttemptDatapathReconnect")
      /\ state = kConnected
      /\ reattempt_count = 0
      /\ reattempt_timer_id = kInvalidTimerId) =>
       /\ ~ Does("VpnService.CreateProtectedNetworkSocket")
       /\ ~ Does("Datapath.SwitchNetwork")
       /\ reattempt_count' = 0]_vars

====
